---- MODULE Spec2Model ----
(***************************************************************************)
(* Model of src/src/BusinessTime.ts: the BusinessTime engine (an instant,  *)
(* a precision, a list of constraints and a lazily filled cache of the     *)
(* length of a business day) and its arithmetic.                           *)
(*                                                                         *)
(* Instants are integers: milliseconds since Monday 2018-05-21T00:00:00Z   *)
(* (all instants are UTC, moment.utc at line 30).  Durations are           *)
(* milliseconds as well.  Big decimals are kept as exact fractions.        *)
(***************************************************************************)
EXTENDS Integers, Sequences, FiniteSets, TLC

-----------------------------------------------------------------------------
(* Calendar units of moment, in milliseconds. *)
Second == 1000
Minute == 60 * Second
Hour == 60 * Minute
Day == 24 * Hour
Week == 7 * Day

(* Bounds of the model: receivers lie on the days 0..MaxDay of the epoch    *)
(* week (0 = Monday 2018-05-21, 5 = Saturday, 6 = Sunday).                  *)
MaxDay == 6

-----------------------------------------------------------------------------
(* Outcomes of a call: a returned value (an instant, a count, a duration,   *)
(* or the fraction v/den), a thrown Error, or a loop that never exits.      *)
Val(x) == [kind |-> "value", v |-> x, den |-> 1, err |-> ""]
Frac(num, d) == [kind |-> "value", v |-> num, den |-> d, err |-> ""]
Err(msg) == [kind |-> "error", v |-> 0, den |-> 1, err |-> msg]
Loops == [kind |-> "loops", v |-> 0, den |-> 1, err |-> ""]
None == [kind |-> "none", v |-> 0, den |-> 1, err |-> ""]

(* lengthOfBusinessDayCached = undefined *)
NoCache == -1

-----------------------------------------------------------------------------
(* The constraints.  Their classes are imported by BusinessTime.ts; the     *)
(* engine only calls isBusinessTime(moment) on them.                        *)
BetweenHoursOfDay(lo, hi) == [kind |-> "BetweenHoursOfDay", min |-> lo, max |-> hi]
WeekDays == [kind |-> "WeekDays", min |-> 0, max |-> 0]

HourOf(t) == (t % Day) \div Hour
\* 0 = Monday .. 6 = Sunday
WeekdayOf(t) == (t \div Day) % 7

ConstraintIsBusinessTime(c, t) ==
    IF c.kind = "BetweenHoursOfDay"
    THEN HourOf(t) >= c.min /\ HourOf(t) < c.max
    ELSE WeekdayOf(t) <= 4

DefaultConstraints == <<BetweenHoursOfDay(9, 17), WeekDays>>

(* isBusinessTime(): every constraint of the list holds. *)
IsBusinessTime(cs, t) ==
    \A i \in 1..Len(cs) : ConstraintIsBusinessTime(cs[i], t)

-----------------------------------------------------------------------------
(* moment passthroughs *)

(* toISOString(): YYYY-MM-DDTHH:mm:ss.SSSZ, the calendar fields of the      *)
(* instant; moment.utc(string, ISO_8601) reads the fields back.             *)
ToISOString(t) ==
    [date |-> t \div Day,
     hh |-> (t % Day) \div Hour,
     mm |-> (t % Hour) \div Minute,
     ss |-> (t % Minute) \div Second,
     sss |-> t % Second]

ParseISO(f) ==
    f.date * Day + f.hh * Hour + f.mm * Minute + f.ss * Second + f.sss

(* atMoment(time): a new engine at the instant of time, same precision and  *)
(* constraints, empty cache.  Only the instant is returned here.            *)
AtMoment(t) == ParseISO(ToISOString(t))

(* An end of day that is the next midnight instead of 23:59:59.999. *)
EndOfDayExclusive(t) == t - (t % Day) + Day

(* moment.startOf("day") / moment.endOf("day") *)
StartOfDay(t) == t - (t % Day)
EndOfDay(t) == StartOfDay(t) + Day - 1

(* time.isSame(other, "minutes") *)
IsSameMinute(a, b) == a \div Minute = b \div Minute

(* add(amount, unit) / subtract(amount, unit): the instant of the result *)
Add(t, amount) == AtMoment(t + amount)
Subtract(t, amount) == AtMoment(t - amount)

(* num / d rounded to the nearest integer, ties away from zero (d > 0) *)
RoundHalfAwayFromZero(num, d) ==
    IF num >= 0 THEN (2 * num + d) \div (2 * d)
    ELSE -((2 * (-num) + d) \div (2 * d))

(* Big.round(0, 0) of the fraction num/d, d > 0: rounding mode 0 of big.js  *)
(* is ROUND_DOWN, towards zero.                                             *)
RoundDown(num, d) ==
    IF num >= 0 THEN num \div d ELSE -((-num) \div d)

-----------------------------------------------------------------------------
(* The while loops.  The variables of a loop are a record; one iteration is *)
(* a Step on it, which leaves the record alone once the loop has ended.     *)

(* businessDaysToAdd.gt(0), where the exact value of the residual is        *)
(* r / (2 * length) and `stepped` tells that decrement was subtracted at    *)
(* least once: decrement is not exactly precision / length (DecrementBias), *)
(* and its error decides the test when the exact value is 0.                *)
ResidualGtZero(r, stepped, bias) ==
    r > 0 \/ (r = 0 /\ stepped /\ bias < 0)

LoopDone(s) ==
    IF s.loop = "diff" THEN ~(s.x < s.end) ELSE s.out.kind # "none"

(* Lines 165-170, the counting loop of diffInBusinessTime.  `next` is built *)
(* by new BusinessTime(start.clone()), so it carries the constructor's      *)
(* default constraints; next.add(this.precision) keeps them (atMoment) and  *)
(* steps by the receiver's precision.                                       *)
DiffStep(s) ==
    [s EXCEPT !.x = Add(s.x, s.p),
              !.diff = IF IsBusinessTime(DefaultConstraints, s.x)
                       THEN s.diff + 1 ELSE s.diff]

(* The loops of lines 197-199, 210-212, 74-79 and 111-116 have no bound.    *)
(* Every constraint is a function of the weekday and the hour, and the      *)
(* precisions divide a week, so a loop that has met no business time in     *)
(* Week / p steps in a row meets none ever: it never exits (Loops).         *)

(* A start loop that gives up when it leaves the calendar day it began in. *)
StartStepWithinDay(s) ==
    IF IsBusinessTime(s.cs, s.x) THEN [s EXCEPT !.out = Val(s.x)]
    ELSE IF (s.x + s.p) \div Day # s.x \div Day THEN [s EXCEPT !.out = Loops]
    ELSE [s EXCEPT !.x = Add(s.x, s.p), !.idle = s.idle + 1]

(* Lines 197-199, startOfBusinessDay. *)
StartStep(s) ==
    IF IsBusinessTime(s.cs, s.x) THEN [s EXCEPT !.out = Val(s.x)]
    ELSE IF s.idle >= Week \div s.p THEN [s EXCEPT !.out = Loops]
    ELSE [s EXCEPT !.x = Add(s.x, s.p), !.idle = s.idle + 1]

(* Lines 210-212, endOfBusinessDay. *)
EndStep(s) ==
    IF IsBusinessTime(s.cs, s.x) THEN [s EXCEPT !.out = Val(s.x)]
    ELSE IF s.idle >= Week \div s.p THEN [s EXCEPT !.out = Loops]
    ELSE [s EXCEPT !.x = Subtract(s.x, s.p), !.idle = s.idle + 1]

(* Lines 74-79, addBusinessDays: test, then step forward. *)
AddStep(s) ==
    IF ~ResidualGtZero(s.r, s.stepped, s.bias) THEN [s EXCEPT !.out = Val(s.x)]
    ELSE IF IsBusinessTime(s.cs, s.x)
    THEN [s EXCEPT !.x = Add(s.x, s.p), !.r = s.r - s.d, !.stepped = TRUE,
                   !.idle = 0]
    ELSE IF s.idle >= Week \div s.p THEN [s EXCEPT !.out = Loops]
    ELSE [s EXCEPT !.x = Add(s.x, s.p), !.idle = s.idle + 1]

(* Lines 111-116, subBusinessDays: step back, then test. *)
SubStep(s) ==
    IF ~ResidualGtZero(s.r, s.stepped, s.bias) THEN [s EXCEPT !.out = Val(s.x)]
    ELSE IF IsBusinessTime(s.cs, Subtract(s.x, s.p))
    THEN [s EXCEPT !.x = Subtract(s.x, s.p), !.r = s.r - s.d, !.stepped = TRUE,
                   !.idle = 0]
    ELSE IF s.idle >= Week \div s.p THEN [s EXCEPT !.out = Loops]
    ELSE [s EXCEPT !.x = Subtract(s.x, s.p), !.idle = s.idle + 1]

Step(s) ==
    IF LoopDone(s) THEN s
    ELSE CASE s.loop = "diff" -> DiffStep(s)
           [] s.loop = "start" -> StartStep(s)
           [] s.loop = "end" -> EndStep(s)
           [] s.loop = "add" -> AddStep(s)
           [] s.loop = "sub" -> SubStep(s)

(* The iterations are run in blocks of 48: the loop's variables after one    *)
(* block are computed before the next block begins.                         *)
RECURSIVE Steps(_, _)
Steps(s, k) ==
    IF k = 0 \/ LoopDone(s) THEN s ELSE Steps(Step(s), k - 1)

RECURSIVE While(_)
While(s) == IF LoopDone(s) THEN s ELSE While(Steps(s, 48))

DiffLoop(start, end, p) ==
    While([loop |-> "diff", x |-> start, end |-> end, p |-> p, diff |-> 0]).diff

StartLoop(cs, p, start) ==
    While([loop |-> "start", x |-> start, cs |-> cs, p |-> p, idle |-> 0,
           out |-> None]).out

EndLoop(cs, p, end) ==
    While([loop |-> "end", x |-> end, cs |-> cs, p |-> p, idle |-> 0,
           out |-> None]).out

AddLoop(cs, p, next, r, d, bias) ==
    While([loop |-> "add", x |-> next, cs |-> cs, p |-> p, r |-> r, d |-> d,
           bias |-> bias, stepped |-> FALSE, idle |-> 0, out |-> None]).out

SubLoop(cs, p, prev, r, d, bias) ==
    While([loop |-> "sub", x |-> prev, cs |-> cs, p |-> p, r |-> r, d |-> d,
           bias |-> bias, stepped |-> FALSE, idle |-> 0, out |-> None]).out

-----------------------------------------------------------------------------
(* A diffInBusinessTime that never negates its count. *)
DiffInBusinessTimeUnsigned(p, m, time, absolute) ==
    IF IsSameMinute(time, m) THEN 0
    ELSE IF m > time THEN DiffLoop(time, m, p) ELSE DiffLoop(m, time, p)

(* diffInBusinessTime *)
DiffInBusinessTime(p, m, time, absolute) ==
    IF IsSameMinute(time, m) THEN 0
    ELSE IF m > time
         THEN DiffLoop(time, m, p) * (IF absolute THEN 1 ELSE -1)
         ELSE DiffLoop(m, time, p)

(* diffBusiness: the count times precision.asSeconds(), as a duration *)
DiffBusiness(p, m, time, absolute) ==
    DiffInBusinessTime(p, m, time, absolute) * (p \div Second) * Second

-----------------------------------------------------------------------------
(* startOfBusinessDay / endOfBusinessDay *)

(* this.startOf("day") sets the receiver's own moment (moment.startOf       *)
(* mutates) and the loop starts from there.                                 *)
StartOfBusinessDay(cs, p, m) == StartLoop(cs, p, AtMoment(StartOfDay(m)))
EndOfBusinessDay(cs, p, m) == EndLoop(cs, p, AtMoment(EndOfDay(m)))

-----------------------------------------------------------------------------
(* lengthOfBusinessDay / setLengthOfBusinessDay *)

(* setLengthOfBusinessDay(duration): the cache is assigned first, then the  *)
(* duration is validated.  (asHours() is a whole number for the durations   *)
(* of this model.)                                                          *)
SetLengthOfBusinessDay(duration) ==
    [cached |-> duration,
     out |-> IF duration <= 0
             THEN Err("Business day cannot be zero-length.")
             ELSE IF duration > 24 * Hour
             THEN Err("Length of business day cannot be more than 24 hours"
                      \o "(set to " \o ToString(duration \div Hour) \o " hours)")
             ELSE Val(duration)]

(* moment("2018-05-23T00:00:00Z"), a Wednesday *)
TypicalDay == 2 * Day

(* lines 313-317, with s and e the outcomes of lines 311 and 312 *)
DetermineFromBounds(p, s, e) ==
    IF s.kind = "loops" \/ e.kind = "loops"
    THEN [cached |-> NoCache, out |-> Loops]
    ELSE SetLengthOfBusinessDay(DiffBusiness(p, s.v, e.v, TRUE))

(* typicalBusinessDay stands at the start of its day once                   *)
(* startOfBusinessDay has run on it.                                        *)
DetermineLengthOfBusinessDay(cs, p) ==
    DetermineFromBounds(p, StartOfBusinessDay(cs, p, TypicalDay),
                        EndOfBusinessDay(cs, p, StartOfDay(TypicalDay)))

LengthOfBusinessDay(cs, p, cached) ==
    IF cached = NoCache
    THEN DetermineLengthOfBusinessDay(cs, p)
    ELSE [cached |-> cached, out |-> Val(cached)]

-----------------------------------------------------------------------------
(* diffInPartialBusinessDays / diffInBusinessDays *)

(* diffInBusinessTime(time, absolute).div(length.asSeconds() /              *)
(* precision.asSeconds()): the fraction count * precision / length, kept as *)
(* numerator and denominator in seconds.  The argument of div fills the     *)
(* cache; Big.div throws on a zero divisor.                                 *)
DivideByLength(len, p, count) ==
    IF len.out.kind # "value"
    THEN len
    ELSE IF len.out.v = 0
    THEN [cached |-> len.cached, out |-> Err("[big.js] Division by zero")]
    ELSE [cached |-> len.cached,
          out |-> Frac(count * (p \div Second), len.out.v \div Second)]

DiffInPartialBusinessDays(cs, p, cached, m, time, absolute) ==
    DivideByLength(LengthOfBusinessDay(cs, p, cached), p,
                   DiffInBusinessTime(p, m, time, absolute))

(* .round(0, 0) of the partial difference *)
RoundPartial(partial) ==
    IF partial.out.kind # "value"
    THEN partial
    ELSE [cached |-> partial.cached,
          out |-> Val(RoundDown(partial.out.v, partial.out.den))]

DiffInBusinessDays(cs, p, cached, m, time, absolute) ==
    RoundPartial(DiffInPartialBusinessDays(cs, p, cached, m, time, absolute))

-----------------------------------------------------------------------------
(* addBusinessDays / subBusinessDays.  The number of business days is given *)
(* in halves: n2 = 2 * businessDays.                                        *)

(* No coarse jump at all. *)
NoJump(n2) == 0

(* daysToJump = businessDays.round(0, 0) *)
DaysToJump(n2) == RoundDown(n2, 2)

(* decrement = new Big(precision.asDays()).div(length.asDays()).  asDays()  *)
(* is a double (milliseconds / 864e5), Big reads its shortest decimal form, *)
(* and the quotient is cut to 20 decimals, so decrement is not exactly      *)
(* precision / length, e.g.                                                 *)
(*   1 h / 8 h  = 0.12500000000000000450   2 h / 6 h  = 0.33333333333333332 *)
(*   1 h / 24 h = 0.04166666666666666400   2 h / 25 h = 0.07999999999999999 *)
(* The pairs <<precision, length>>, in hours, for which it comes out above  *)
(* the exact quotient, exactly on it, and below it.                         *)
DecrementAbove ==
    {<<1, h>> : h \in {8, 11, 13, 16, 19, 22}}
        \cup {<<2, h>> : h \in {1, 8, 11, 13, 16, 19, 22}}

DecrementExact == {<<1, 1>>, <<2, 2>>, <<2, 4>>}

DecrementBelow ==
    {<<1, h>> : h \in {2, 3, 4, 5, 6, 7, 9, 10, 12, 14, 15, 17, 18, 20, 21,
                       23, 24, 25}}
        \cup {<<2, h>> : h \in {3, 5, 6, 7, 9, 10, 12, 14, 15, 17, 18, 20, 21,
                                23, 24, 25}}

DecrementBias(p, len) ==
    CASE <<p \div Hour, len \div Hour>> \in DecrementAbove -> 1
      [] <<p \div Hour, len \div Hour>> \in DecrementExact -> 0
      [] <<p \div Hour, len \div Hour>> \in DecrementBelow -> -1

(* lines 64-81, with next of line 62 and the partial difference of line 67 *)
AddFrom(cs, p, next, n2, covered) ==
    IF covered.out.kind # "value"
    THEN covered
    ELSE [cached |-> covered.cached,
          out |-> AddLoop(cs, p, next,
                          n2 * covered.out.den - 2 * covered.out.v,
                          2 * (p \div Second),
                          DecrementBias(p, covered.cached))]

AddJump(cs, p, cached, m, n2, next) ==
    AddFrom(cs, p, next, n2,
            DiffInPartialBusinessDays(cs, p, cached, m, next, TRUE))

(* lines 57-81, for businessDays >= 0 *)
AddForward(cs, p, cached, m, n2) ==
    AddJump(cs, p, cached, m, n2, Add(m, DaysToJump(n2) * Day))

(* lines 101-118, with prev of line 99 and the partial difference of line 104 *)
SubFrom(cs, p, prev, n2, covered) ==
    IF covered.out.kind # "value"
    THEN covered
    ELSE [cached |-> covered.cached,
          out |-> SubLoop(cs, p, prev,
                          n2 * covered.out.den - 2 * covered.out.v,
                          2 * (p \div Second),
                          DecrementBias(p, covered.cached))]

SubJump(cs, p, cached, m, n2, prev) ==
    SubFrom(cs, p, prev, n2,
            DiffInPartialBusinessDays(cs, p, cached, m, prev, TRUE))

(* lines 94-118, for businessDays >= 0 *)
SubBackward(cs, p, cached, m, n2) ==
    SubJump(cs, p, cached, m, n2, Subtract(m, DaysToJump(n2) * Day))

AddBusinessDays(cs, p, cached, m, n2) ==
    IF n2 < 0 THEN SubBackward(cs, p, cached, m, -n2)
    ELSE AddForward(cs, p, cached, m, n2)

SubBusinessDays(cs, p, cached, m, n2) ==
    IF n2 < 0 THEN AddForward(cs, p, cached, m, -n2)
    ELSE SubBackward(cs, p, cached, m, n2)

-----------------------------------------------------------------------------
(* The state: one BusinessTime object (the receiver), and the last call     *)
(* made on it with what it returned.                                        *)
VARIABLES
    moment,                     \* this.moment
    precision,                  \* this.precision
    constraints,                \* this.constraints
    lengthOfBusinessDayCached,  \* this.lengthOfBusinessDayCached
    pc,                         \* "ready", or "returned" after a call
    call,                       \* the call: operation, arguments, receiver before it
    result,                     \* its outcome
    origin                      \* first link of a chain t.addBusinessDays(n). ...

vars == <<moment, precision, constraints, lengthOfBusinessDayCached,
          pc, call, result, origin>>

(* Inputs. *)
TimesOfDay ==
    {9 * Hour, 9 * Hour + 30 * Minute, 12 * Hour, 16 * Hour, 17 * Hour}

Receivers == {d * Day + tod : d \in 0..MaxDay, tod \in TimesOfDay}

(* Arguments of the diff operations; an omitted argument is moment(), the   *)
(* wall clock, which is any instant.                                        *)
Others ==
    {9 * Hour + 30 * Second, 2 * Day + 12 * Hour,
     4 * Day + 16 * Hour + 30 * Minute}

(* Precision and constraints given to the constructor; the first is the     *)
(* constructor's default.                                                   *)
Configurations ==
    {[precision |-> Hour, constraints |-> DefaultConstraints],
     [precision |-> 2 * Hour, constraints |-> DefaultConstraints],
     [precision |-> Hour, constraints |-> <<>>],
     [precision |-> Hour, constraints |-> <<BetweenHoursOfDay(9, 9)>>]}

(* Business days, in halves: -1, 0, 0.5, 1, 1.5, 2.5 *)
BusinessDays2 == {-2, 0, 1, 2, 3, 5}

Durations == {0, 24 * Hour, 25 * Hour}

NoCall == [op |-> "", n |-> 0, time |-> 0, absolute |-> TRUE,
           recv |-> 0, len0 |-> NoCache]

NoOrigin == [set |-> FALSE, moment |-> 0, n |-> 0]

Called(name, n2, time, absolute) ==
    [op |-> name, n |-> n2, time |-> time, absolute |-> absolute,
     recv |-> moment, len0 |-> lengthOfBusinessDayCached]

(* constructor *)
Init ==
    /\ moment \in Receivers
    /\ \E c \in Configurations :
           precision = c.precision /\ constraints = c.constraints
    /\ lengthOfBusinessDayCached = NoCache
    /\ pc = "ready"
    /\ call = NoCall
    /\ result = None
    /\ origin = NoOrigin

Returns(c, r, m, cached) ==
    /\ pc' = "returned"
    /\ call' = c
    /\ result' = r
    /\ moment' = m
    /\ lengthOfBusinessDayCached' = cached
    /\ UNCHANGED <<precision, constraints, origin>>

CallIsBusinessTime ==
    /\ pc = "ready"
    /\ Returns(Called("isBusinessTime", 0, 0, TRUE),
            Val(IF IsBusinessTime(constraints, moment) THEN 1 ELSE 0),
            moment, lengthOfBusinessDayCached)

CallAddBusinessDay ==
    /\ pc = "ready"
    /\ \E r \in {AddBusinessDays(constraints, precision,
                             lengthOfBusinessDayCached, moment, 2)} :
       Returns(Called("addBusinessDay", 2, 0, TRUE), r.out, moment, r.cached)

CallAddBusinessDays ==
    /\ pc = "ready"
    /\ \E n2 \in BusinessDays2 :
        \E r \in {AddBusinessDays(constraints, precision,
                                 lengthOfBusinessDayCached, moment, n2)} :
           Returns(Called("addBusinessDays", n2, 0, TRUE), r.out, moment, r.cached)

CallSubBusinessDay ==
    /\ pc = "ready"
    /\ \E r \in {SubBusinessDays(constraints, precision,
                             lengthOfBusinessDayCached, moment, 2)} :
       Returns(Called("subBusinessDay", 2, 0, TRUE), r.out, moment, r.cached)

CallSubBusinessDays ==
    /\ pc = "ready"
    /\ \E n2 \in BusinessDays2 :
        \E r \in {SubBusinessDays(constraints, precision,
                                 lengthOfBusinessDayCached, moment, n2)} :
           Returns(Called("subBusinessDays", n2, 0, TRUE), r.out, moment, r.cached)

CallDiffInBusinessDays ==
    /\ pc = "ready"
    /\ \E time \in Others, absolute \in BOOLEAN :
        \E r \in {DiffInBusinessDays(constraints, precision,
                                    lengthOfBusinessDayCached, moment, time, absolute)} :
           Returns(Called("diffInBusinessDays", 0, time, absolute),
                   r.out, moment, r.cached)

CallDiffInPartialBusinessDays ==
    /\ pc = "ready"
    /\ \E time \in Others, absolute \in BOOLEAN :
        \E r \in {DiffInPartialBusinessDays(constraints, precision,
                                           lengthOfBusinessDayCached, moment, time,
                                           absolute)} :
           Returns(Called("diffInPartialBusinessDays", 0, time, absolute),
                   r.out, moment, r.cached)

CallDiffInBusinessTime ==
    /\ pc = "ready"
    /\ \E time \in Others, absolute \in BOOLEAN :
        Returns(Called("diffInBusinessTime", 0, time, absolute),
                Val(DiffInBusinessTime(precision, moment, time, absolute)),
                moment, lengthOfBusinessDayCached)

CallDiffBusiness ==
    /\ pc = "ready"
    /\ \E time \in Others, absolute \in BOOLEAN :
        Returns(Called("diffBusiness", 0, time, absolute),
                Val(DiffBusiness(precision, moment, time, absolute)),
                moment, lengthOfBusinessDayCached)

CallStartOfBusinessDay ==
    /\ pc = "ready"
    /\ Returns(Called("startOfBusinessDay", 0, 0, TRUE),
            StartOfBusinessDay(constraints, precision, moment),
            StartOfDay(moment), lengthOfBusinessDayCached)

CallEndOfBusinessDay ==
    /\ pc = "ready"
    /\ Returns(Called("endOfBusinessDay", 0, 0, TRUE),
            EndOfBusinessDay(constraints, precision, moment),
            EndOfDay(moment), lengthOfBusinessDayCached)

CallLengthOfBusinessDay ==
    /\ pc = "ready"
    /\ \E r \in {LengthOfBusinessDay(constraints, precision, lengthOfBusinessDayCached)} :
       Returns(Called("lengthOfBusinessDay", 0, 0, TRUE), r.out, moment, r.cached)

CallSetLengthOfBusinessDay ==
    /\ pc = "ready"
    /\ \E duration \in Durations :
        \E r \in {SetLengthOfBusinessDay(duration)} :
           Returns(Called("setLengthOfBusinessDay", 0, duration, TRUE),
                   r.out, moment, r.cached)

(* add(1, "days") and add(precision) *)
CallAdd ==
    /\ pc = "ready"
    /\ \E amount \in {Day, precision} :
        Returns(Called("add", 0, amount, TRUE), Val(Add(moment, amount)),
                moment, lengthOfBusinessDayCached)

CallSubtract ==
    /\ pc = "ready"
    /\ \E amount \in {Day, precision} :
        Returns(Called("subtract", 0, amount, TRUE), Val(Subtract(moment, amount)),
                moment, lengthOfBusinessDayCached)

(* startOf("day"): this.moment.startOf(unit) changes this.moment *)
CallStartOf ==
    /\ pc = "ready"
    /\ Returns(Called("startOf", 0, 0, TRUE), Val(AtMoment(StartOfDay(moment))),
            StartOfDay(moment), lengthOfBusinessDayCached)

CallEndOf ==
    /\ pc = "ready"
    /\ Returns(Called("endOf", 0, 0, TRUE), Val(AtMoment(EndOfDay(moment))),
            EndOfDay(moment), lengthOfBusinessDayCached)

CallClone ==
    /\ pc = "ready"
    /\ Returns(Called("clone", 0, 0, TRUE), Val(AtMoment(moment)),
            moment, lengthOfBusinessDayCached)

(* The caller takes what the call returned or threw; a call that loops      *)
(* never comes back.                                                        *)
Return ==
    /\ pc = "returned"
    /\ result.kind # "loops"
    /\ pc' = "ready"
    /\ call' = NoCall
    /\ result' = None
    /\ UNCHANGED <<moment, precision, constraints, lengthOfBusinessDayCached,
                   origin>>

(* Chaining, t.addBusinessDays(n).subBusinessDays(n): the engine returned   *)
(* by addBusinessDays (atMoment: same precision and constraints, no cache)  *)
(* becomes the receiver.                                                    *)
Chain ==
    /\ pc = "returned"
    /\ call.op = "addBusinessDays"
    /\ result.kind = "value"
    /\ ~origin.set
    /\ origin' = [set |-> TRUE, moment |-> call.recv, n |-> call.n]
    /\ moment' = result.v
    /\ lengthOfBusinessDayCached' = NoCache
    /\ pc' = "ready"
    /\ call' = NoCall
    /\ result' = None
    /\ UNCHANGED <<precision, constraints>>

Next ==
    \/ CallIsBusinessTime
    \/ CallAddBusinessDay
    \/ CallAddBusinessDays
    \/ CallSubBusinessDay
    \/ CallSubBusinessDays
    \/ CallDiffInBusinessDays
    \/ CallDiffInPartialBusinessDays
    \/ CallDiffInBusinessTime
    \/ CallDiffBusiness
    \/ CallStartOfBusinessDay
    \/ CallEndOfBusinessDay
    \/ CallLengthOfBusinessDay
    \/ CallSetLengthOfBusinessDay
    \/ CallAdd
    \/ CallSubtract
    \/ CallStartOf
    \/ CallEndOf
    \/ CallClone
    \/ Return

Spec == Init /\ [][Next]_vars

(* The round trip: only addBusinessDays, the chaining and subBusinessDays. *)
NextRoundTrip ==
    \/ CallAddBusinessDays
    \/ Chain
    \/ CallSubBusinessDays
    \/ Return

RoundTripSpec == Init /\ [][NextRoundTrip]_vars

-----------------------------------------------------------------------------
(* Properties.  After a call the state holds the call (operation,          *)
(* arguments, the receiver's instant and cache before it), its outcome, and *)
(* the receiver's fields after it.                                          *)

Returned(op) == pc = "returned" /\ call.op = op

DefaultEngine == precision = Hour /\ constraints = DefaultConstraints

Transformations ==
    {"add", "subtract", "startOf", "endOf", "clone", "startOfBusinessDay",
     "endOfBusinessDay", "addBusinessDays", "subBusinessDays"}

(* C1: no transformation mutates its receiver: after add, subtract,         *)
(* startOf, endOf, clone, startOfBusinessDay, endOfBusinessDay,             *)
(* addBusinessDays or subBusinessDays the receiver's instant is the one it  *)
(* had before the call (precision and constraints are never assigned).      *)
C1_ReceiverUnchanged ==
    (pc = "returned" /\ call.op \in Transformations) => moment = call.recv

(* The instants min(this, other) + k * p before max(this, other) at which   *)
(* every constraint of cs holds.                                            *)
BusinessInstantsBetween(cs, p, a, b) ==
    LET lo == IF a < b THEN a ELSE b
        hi == IF a < b THEN b ELSE a
    IN {k \in 0..((hi - lo) \div p) :
            lo + k * p < hi /\ IsBusinessTime(cs, lo + k * p)}

(* C2: diffInBusinessTime(other, true), other not in the receiver's minute, *)
(* is the number of instants min + k * p before max at which every          *)
(* constraint of the receiver's own list holds.                             *)
C2_CountsOwnConstraints ==
    (Returned("diffInBusinessTime") /\ call.absolute
        /\ ~IsSameMinute(call.time, call.recv))
    => result = Val(Cardinality(BusinessInstantsBetween(
                        constraints, precision, call.recv, call.time)))

(* C3: default constraints, 1 hour precision, derived length of the day: on *)
(* a whole hour that is business time addBusinessDays(1) returns the same   *)
(* time of day on the next weekday (Friday gives the following Monday).     *)
C3_NextWeekday ==
    (Returned("addBusinessDays") /\ call.n = 2 /\ DefaultEngine
        /\ call.len0 = NoCache /\ call.recv % Hour = 0
        /\ IsBusinessTime(constraints, call.recv))
    => result = Val(call.recv
                    + (IF WeekdayOf(call.recv) = 4 THEN 3 ELSE 1) * Day)

(* C4, as the code has it: default constraints, 1 hour precision, receiver  *)
(* on a weekday: startOfBusinessDay() returns 09:00:00.000 of the           *)
(* receiver's calendar day and endOfBusinessDay() returns 16:59:59.999 of   *)
(* it (the end of the day, 23:59:59.999, less seven hours).                 *)
C4_StartAndEndOfBusinessDay ==
    (pc = "returned" /\ DefaultEngine /\ WeekdayOf(call.recv) <= 4)
    => /\ call.op = "startOfBusinessDay"
            => result = Val(StartOfDay(call.recv) + 9 * Hour)
       /\ call.op = "endOfBusinessDay"
            => result = Val(StartOfDay(call.recv) + 17 * Hour - 1)

(* C4 as stated: endOfBusinessDay() returns 16:00:00 of the calendar day.   *)
C4_EndAtSixteen ==
    (pc = "returned" /\ DefaultEngine /\ WeekdayOf(call.recv) <= 4)
    => /\ call.op = "startOfBusinessDay"
            => result = Val(StartOfDay(call.recv) + 9 * Hour)
       /\ call.op = "endOfBusinessDay"
            => result = Val(StartOfDay(call.recv) + 16 * Hour)

C4_Witness ==
    /\ Returned("endOfBusinessDay") /\ DefaultEngine
    /\ WeekdayOf(call.recv) <= 4 /\ call.recv % Day = 12 * Hour
    /\ result.kind = "value"

(* The partial difference of the call that has returned. *)
PartialOfCall ==
    DiffInPartialBusinessDays(constraints, precision, call.len0, call.recv,
                              call.time, call.absolute).out

(* C5, as the code has it: diffInBusinessDays is diffInPartialBusinessDays  *)
(* with its fraction dropped (rounded towards zero): 0.5 and 0.75 give 0,   *)
(* 1.5 gives 1.                                                             *)
C5_RoundsTowardsZero ==
    (Returned("diffInBusinessDays") /\ result.kind = "value")
    => /\ PartialOfCall.kind = "value"
       /\ PartialOfCall.v >= 0
            => /\ result.v * PartialOfCall.den <= PartialOfCall.v
               /\ PartialOfCall.v < (result.v + 1) * PartialOfCall.den
       /\ PartialOfCall.v < 0
            => /\ result.v * PartialOfCall.den >= PartialOfCall.v
               /\ PartialOfCall.v > (result.v - 1) * PartialOfCall.den

(* C5 as stated: the partial difference rounded to the nearest integer,     *)
(* ties away from zero.                                                     *)
C5_RoundsToNearest ==
    (Returned("diffInBusinessDays") /\ result.kind = "value")
    => result.v = RoundHalfAwayFromZero(PartialOfCall.v, PartialOfCall.den)

(* a partial difference with a fraction of at least one half *)
C5_Witness ==
    /\ Returned("diffInBusinessDays") /\ result.kind = "value"
    /\ 2 * (PartialOfCall.v % PartialOfCall.den) >= PartialOfCall.den

(* C7: the cached length is absent or a duration in (0, 24h], in every      *)
(* state: a failed setLengthOfBusinessDay leaves the cache as it was.       *)
C7_CacheInRange ==
    \/ lengthOfBusinessDayCached = NoCache
    \/ lengthOfBusinessDayCached > 0 /\ lengthOfBusinessDayCached <= 24 * Hour

(* b.diffInBusinessDays(a, false) for the call a.diffInBusinessDays(b,      *)
(* false) that has returned, b an engine with a's precision and             *)
(* constraints whose cache holds `cached`.                                  *)
DiffBack(cached) ==
    DiffInBusinessDays(constraints, precision, cached, call.time, call.recv,
                       FALSE).out

(* C8, as the code has it: for two engines with the same precision, the     *)
(* same constraints and the same length of the business day (both derived,  *)
(* or both set to the same duration), a.diffInBusinessDays(b, false) is     *)
(* -(b.diffInBusinessDays(a, false)), negative only when a is after b and   *)
(* positive only when a is before b; when one call throws or never          *)
(* returns, so does the other.                                              *)
C8_AntisymmetricSameLength ==
    (Returned("diffInBusinessDays") /\ ~call.absolute)
    => IF result.kind = "value"
       THEN /\ DiffBack(call.len0).kind = "value"
            /\ result.v = -DiffBack(call.len0).v
            /\ result.v < 0 => call.recv > call.time
            /\ result.v > 0 => call.recv < call.time
       ELSE DiffBack(call.len0) = result

(* C8 as stated: any two engines with the same precision and constraints;   *)
(* here b has not been given a length, whatever a has been given.           *)
C8_AntisymmetricAnyLength ==
    (Returned("diffInBusinessDays") /\ ~call.absolute
        /\ result.kind = "value" /\ DiffBack(NoCache).kind = "value")
    => result.v = -DiffBack(NoCache).v

C8_Witness ==
    /\ Returned("diffInBusinessDays") /\ ~call.absolute
    /\ result.kind = "value" /\ result.v < 0

(* C9, as the code has it: the coarse jump is n with its fraction dropped   *)
(* (0 days for n = 0.5, 1 and 2 days for n = 1.5 and 2.5): the result of    *)
(* addBusinessDays(n) is never earlier than the receiver plus that many     *)
(* calendar days, the result of subBusinessDays(n) never later than the     *)
(* receiver minus that many.  (call.n is 2 * n.)                            *)
C9_JumpTowardsZero ==
    (pc = "returned" /\ call.n >= 0 /\ result.kind = "value")
    => /\ call.op = "addBusinessDays"
            => result.v >= call.recv + (call.n \div 2) * Day
       /\ call.op = "subBusinessDays"
            => result.v <= call.recv - (call.n \div 2) * Day

(* C9 as stated: the jump is n rounded to the nearest integer, ties away    *)
(* from zero.                                                               *)
C9_JumpToNearest ==
    (pc = "returned" /\ call.n >= 0 /\ result.kind = "value")
    => /\ call.op = "addBusinessDays"
            => result.v >= call.recv + ((call.n + 1) \div 2) * Day
       /\ call.op = "subBusinessDays"
            => result.v <= call.recv - ((call.n + 1) \div 2) * Day

(* addBusinessDays(2.5) lands less than three days after the receiver *)
C9_Witness ==
    /\ Returned("addBusinessDays") /\ call.n = 5 /\ result.kind = "value"
    /\ result.v < call.recv + 3 * Day

(* The steps k at which the loop of startOfBusinessDay (dir = 1, from the   *)
(* start of the day) or endOfBusinessDay (dir = -1, from its end) meets     *)
(* business time, among the first `steps` + 1.                              *)
BusinessSteps(from, dir, steps) ==
    {k \in 0..steps : IsBusinessTime(constraints, from + dir * k * precision)}

First(ks) == CHOOSE k \in ks : \A j \in ks : k <= j

(* C10, as the code has it: the loops are not confined to the calendar day. *)
(* startOfBusinessDay() returns the first business-time instant at or after *)
(* the start of the receiver's day in steps of the precision, on whatever   *)
(* day it lies (Monday 09:00 for a Saturday), endOfBusinessDay() the first  *)
(* one at or before the end of the day going back (Friday 16:59:59.999 for  *)
(* a Saturday); they never return only when no instant of a whole week of   *)
(* steps is business time.                                                  *)
C10_FirstBusinessTimeAnyDay ==
    /\ Returned("startOfBusinessDay")
        => LET ks == BusinessSteps(StartOfDay(call.recv), 1, Week \div precision)
           IN IF ks = {} THEN result = Loops
              ELSE result = Val(StartOfDay(call.recv) + First(ks) * precision)
    /\ Returned("endOfBusinessDay")
        => LET ks == BusinessSteps(EndOfDay(call.recv), -1, Week \div precision)
           IN IF ks = {} THEN result = Loops
              ELSE result = Val(EndOfDay(call.recv) - First(ks) * precision)

(* C10 as stated: a call returns only if the receiver's calendar day holds  *)
(* a business-time instant on the loop's steps.                             *)
C10_ReturnsOnlyWithinDay ==
    /\ (Returned("startOfBusinessDay") /\ result.kind = "value")
        => BusinessSteps(StartOfDay(call.recv), 1, Day \div precision - 1) # {}
    /\ (Returned("endOfBusinessDay") /\ result.kind = "value")
        => BusinessSteps(EndOfDay(call.recv), -1, Day \div precision - 1) # {}

(* startOfBusinessDay() on a Saturday under the default constraints *)
C10_Witness ==
    /\ Returned("startOfBusinessDay") /\ DefaultEngine
    /\ WeekdayOf(call.recv) = 5 /\ result.kind = "value"

(* C6: for n in {0, 0.5, 1, 2.5} and t business time under the engine's     *)
(* constraints, t.addBusinessDays(n).subBusinessDays(n) returns an instant  *)
(* at most one precision away from t.  (origin is t and n of the first      *)
(* call, the receiver of the second is what the first returned.)            *)
C6_RoundTrip ==
    (Returned("subBusinessDays") /\ origin.set /\ call.n = origin.n
        /\ call.n \in {0, 1, 2, 5}
        /\ IsBusinessTime(constraints, origin.moment))
    => /\ result.kind = "value"
       /\ result.v - origin.moment <= precision
       /\ origin.moment - result.v <= precision

(* C6 with the default constraints only *)
C6_RoundTripDefault ==
    (Returned("subBusinessDays") /\ origin.set /\ call.n = origin.n
        /\ call.n \in {0, 1, 2, 5}
        /\ constraints = DefaultConstraints
        /\ IsBusinessTime(constraints, origin.moment))
    => /\ result.kind = "value"
       /\ result.v - origin.moment <= precision
       /\ origin.moment - result.v <= precision

====
